---- MODULE Spec2Model ----
(***************************************************************************)
(* Hand-gesture calculator: the calculator engine (calculator.py), the     *)
(* gesture hold/cooldown state machine and landmark classifier             *)
(* (gesture_recognizer.py) and the frame loop that connects them (main.py).*)
(*                                                                         *)
(* Representation                                                          *)
(*   - Python None is "None" in string-valued fields, NoFloat (<<>>) in    *)
(*     float-valued fields and NoTime (-1) in time-valued fields.          *)
(*   - A Python float is an exact rational <<n, d>>, d > 0, in lowest      *)
(*     terms; the negative zero of IEEE arithmetic is <<0, -1>>.           *)
(*   - time.time() is the variable now, counted in ticks of                *)
(*     1/TicksPerSecond seconds.                                           *)
(***************************************************************************)
EXTENDS Integers, Sequences, FiniteSets, TLC

VARIABLES
    \* Calculator (calculator.py, __init__)
    current_number, operation, operand1, result, history, error,
    \* last call of process_gesture: its argument and return value
    gesture, ret,
    \* what the last call's evaluation (_calculate_result) did, and the
    \* calculator as that evaluation left it
    ev_outcome, ev_after,
    \* symbols processed since construction, while they follow the pattern
    \* digit, operator, digit, (operator, digit,) '='
    trace,
    \* number of process_gesture calls so far
    steps,
    \* GestureRecognizer (gesture_recognizer.py, __init__)
    current_gesture, gesture_start_time, last_confirmed_gesture,
    last_confirmed_time,
    \* time.time() and the last return value of recognize_gesture
    now, rec_ret,
    \* the current uninterrupted run of frames classified to one symbol:
    \* its symbol, the time of its first frame, whether that frame fell in
    \* the cooldown window, and the confirmations returned during the run
    run_symbol, run_start, run_in_cooldown, run_confirms,
    \* last call of get_history: its argument and return value
    hist_arg, hist_ret,
    \* the landmarks of the last frame, and detected_gesture as the
    \* classifier computed it for them
    landmarks, detected

calc_vars == <<current_number, operation, operand1, result, history, error>>
calc_ghost == <<gesture, ret, ev_outcome, ev_after, trace, steps>>
rec_vars == <<current_gesture, gesture_start_time, last_confirmed_gesture,
              last_confirmed_time>>
rec_ghost == <<now, rec_ret, run_symbol, run_start, run_in_cooldown,
               run_confirms>>
hist_vars == <<hist_arg, hist_ret>>
class_vars == <<landmarks, detected>>
vars == <<calc_vars, calc_ghost, rec_vars, rec_ghost, hist_vars, class_vars>>

(***************************************************************************)
(* Bounds                                                                  *)
(***************************************************************************)
\* process_gesture calls explored from construction
MaxSteps == 7
\* entries of the history logs get_history is tried on
MaxLog == 5
\* largest max_items get_history is called with
MaxItems == 6
\* fractional digits kept when a non-integral float is printed by str()
ReprDigits == 16

None == "None"
NoFloat == <<>>
NoTime == -1
\* hist_arg before the first call of get_history
NotCalled == -1

(***************************************************************************)
(* Floats as exact rationals                                               *)
(***************************************************************************)
Abs(i) == IF i < 0 THEN -i ELSE i

RECURSIVE GCD(_, _)
GCD(a, b) == IF b = 0 THEN a ELSE GCD(b, a % b)

NegZero == <<0, -1>>

\* the rational n/d (d # 0) in lowest terms with a positive denominator
Norm(n, d) ==
    LET g == GCD(Abs(n), Abs(d))
        s == IF d < 0 THEN -1 ELSE 1
    IN  <<(s * n) \div g, Abs(d) \div g>>

IsZero(x) == x[1] = 0
IsNeg(x) == x[1] < 0 \/ x = NegZero

\* float("d") for a one-character digit string
DigitValue(s) == CHOOSE i \in 0..9 : ToString(i) = s
float(s) == <<DigitValue(s), 1>>

\* x + y; an exact zero sum is -0.0 only when both terms are -0.0
FAdd(x, y) ==
    IF IsZero(x) /\ IsZero(y)
    THEN (IF x = NegZero /\ y = NegZero THEN NegZero ELSE <<0, 1>>)
    ELSE Norm(x[1] * Abs(y[2]) + y[1] * Abs(x[2]), Abs(x[2]) * Abs(y[2]))

FNeg(x) ==
    IF x = NegZero THEN <<0, 1>>
    ELSE IF IsZero(x) THEN NegZero ELSE <<-x[1], x[2]>>

FSub(x, y) == FAdd(x, FNeg(y))

\* x * y; a zero product carries the sign of the product
FMul(x, y) ==
    IF IsZero(x) \/ IsZero(y)
    THEN (IF IsNeg(x) # IsNeg(y) THEN NegZero ELSE <<0, 1>>)
    ELSE Norm(x[1] * y[1], x[2] * y[2])

\* x / y for y # 0; a zero quotient carries the sign of the quotient
FDiv(x, y) ==
    IF IsZero(x)
    THEN (IF IsNeg(x) # IsNeg(y) THEN NegZero ELSE <<0, 1>>)
    ELSE Norm(x[1] * y[2], x[2] * y[1])

\* x == int(x)
IsIntegral(x) == Abs(x[2]) = 1

\* int(x): truncation toward zero
int(x) == IF x[1] < 0 THEN -(Abs(x[1]) \div Abs(x[2]))
          ELSE x[1] \div Abs(x[2])

RECURSIVE FracDigits(_, _, _)
\* the first k decimal digits of r/d (0 <= r < d), stopping when exact
FracDigits(r, d, k) ==
    IF r = 0 \/ k = 0 THEN ""
    ELSE ToString((r * 10) \div d) \o FracDigits((r * 10) % d, d, k - 1)

\* str(x) of a float, as the f-string of the history entry prints it
FloatStr(x) ==
    LET sign == IF IsNeg(x) THEN "-" ELSE ""
        n == Abs(x[1])
        d == Abs(x[2])
    IN  IF d = 1 THEN sign \o ToString(n) \o ".0"
        ELSE sign \o ToString(n \div d) \o "." \o FracDigits(n % d, d, ReprDigits)

RECURSIVE RStripZeros(_)
RStripZeros(ds) ==
    IF ds = <<>> THEN ds
    ELSE IF ds[Len(ds)] = 0 THEN RStripZeros(SubSeq(ds, 1, Len(ds) - 1))
    ELSE ds

RECURSIVE DigitsToStr(_)
DigitsToStr(ds) ==
    IF ds = <<>> THEN "" ELSE ToString(Head(ds)) \o DigitsToStr(Tail(ds))

\* f"{x:.4f}".rstrip('0').rstrip('.') : round to four decimals (ties to
\* even), drop trailing zeros, then a trailing point
Fixed4Str(x) ==
    LET sign == IF IsNeg(x) THEN "-" ELSE ""
        n == Abs(x[1])
        d == Abs(x[2])
        q == (n * 10000) \div d
        r == (n * 10000) % d
        up == (2 * r > d) \/ (2 * r = d /\ q % 2 = 1)
        s == IF up THEN q + 1 ELSE q
        ip == s \div 10000
        fp == s % 10000
        ds == RStripZeros(<<fp \div 1000, (fp \div 100) % 10,
                            (fp \div 10) % 10, fp % 10>>)
    IN  IF ds = <<>> THEN sign \o ToString(ip)
        ELSE sign \o ToString(ip) \o "." \o DigitsToStr(ds)

(***************************************************************************)
(* Calculator                                                              *)
(***************************************************************************)
Digits == {"0", "1", "2", "3", "4", "5", "6", "7", "8", "9"}
Operations == {"+", "-", "*", "/"}

\* the calculator's fields as one record
Calc == [current_number |-> current_number, operation |-> operation,
         operand1 |-> operand1, result |-> result, history |-> history,
         error |-> error]

\* Calculator.__init__
NewCalc == [current_number |-> "", operation |-> None, operand1 |-> NoFloat,
            result |-> NoFloat, history |-> <<>>, error |-> None]

\* clear that also empties the log
clear_wipes_history(c) == [c EXCEPT !.current_number = "", !.operation = None,
                                    !.operand1 = NoFloat, !.result = NoFloat,
                                    !.history = <<>>, !.error = None]

\* clear that forgets to reset result
clear_keeps_result(c) == [c EXCEPT !.current_number = "", !.operation = None,
                                   !.operand1 = NoFloat, !.error = None]

\* Calculator.clear
clear(c) == [c EXCEPT !.current_number = "", !.operation = None,
                      !.operand1 = NoFloat, !.result = NoFloat,
                      !.error = None]

\* which branch Calculator._calculate_result takes in c
eval_outcome(c) ==
    IF c.operand1 = NoFloat \/ c.operation = None THEN "noop"
    ELSE IF c.current_number = "" THEN "noop"
    ELSE IF c.operation = "/" /\ IsZero(float(c.current_number)) THEN "divzero"
    ELSE "ok"

\* the arithmetic with the operands of '-' and '/' exchanged
apply_operation_swapped(op, x, y) ==
    CASE op = "+" -> FAdd(x, y)
      [] op = "-" -> FSub(y, x)
      [] op = "*" -> FMul(x, y)
      [] op = "/" -> IF IsZero(x) THEN <<0, 1>> ELSE FDiv(y, x)

\* the arithmetic of Calculator._calculate_result
apply_operation(op, x, y) ==
    CASE op = "+" -> FAdd(x, y)
      [] op = "-" -> FSub(x, y)
      [] op = "*" -> FMul(x, y)
      [] op = "/" -> FDiv(x, y)

\* f"{operand1} {operation} {operand2} = {result}"
expression(x, op, y, r) ==
    FloatStr(x) \o " " \o op \o " " \o FloatStr(y) \o " = " \o FloatStr(r)

\* the division-by-zero branch returning without the reset
division_by_zero_no_clear(c) == [c EXCEPT !.error = "Division by zero"]

\* Calculator._calculate_result, the branch operand2 == 0 of '/'
division_by_zero(c) == clear([c EXCEPT !.error = "Division by zero"])

\* Calculator._calculate_result (no float operation of the try block
\* raises, so the except branch is never taken)
calculate_result(c) ==
    IF eval_outcome(c) = "noop" THEN c
    ELSE LET operand2 == float(c.current_number) IN
         IF eval_outcome(c) = "divzero"
         THEN division_by_zero(c)
         ELSE LET r == apply_operation(c.operation, c.operand1, operand2) IN
              [c EXCEPT !.result = r,
                        !.history = Append(c.history,
                            expression(c.operand1, c.operation, operand2, r)),
                        !.operand1 = NoFloat,
                        !.operation = None,
                        !.current_number = ""]

\* _handle_operation taking over the result without the operator
handle_operation_no_operator(c, op) ==
    IF c.current_number # ""
    THEN IF c.operand1 = NoFloat
         THEN [c EXCEPT !.operand1 = float(c.current_number),
                        !.current_number = "",
                        !.operation = op]
         ELSE LET e == calculate_result(c) IN
              IF e.error = None THEN [e EXCEPT !.operation = op] ELSE e
    ELSE IF c.result # NoFloat
         THEN [c EXCEPT !.operand1 = c.result, !.result = NoFloat]
         ELSE c

\* _handle_operation taking over the result without clearing it
handle_operation_keeps_result(c, op) ==
    IF c.current_number # ""
    THEN IF c.operand1 = NoFloat
         THEN [c EXCEPT !.operand1 = float(c.current_number),
                        !.current_number = "",
                        !.operation = op]
         ELSE LET e == calculate_result(c) IN
              IF e.error = None THEN [e EXCEPT !.operation = op] ELSE e
    ELSE IF c.result # NoFloat
         THEN [c EXCEPT !.operand1 = c.result, !.operation = op]
         ELSE c

\* _handle_operation installing the operator with nothing to operate on
handle_operation_always_sets(c, op) ==
    IF c.current_number # ""
    THEN IF c.operand1 = NoFloat
         THEN [c EXCEPT !.operand1 = float(c.current_number),
                        !.current_number = "",
                        !.operation = op]
         ELSE LET e == calculate_result(c) IN
              IF e.error = None THEN [e EXCEPT !.operation = op] ELSE e
    ELSE IF c.result # NoFloat
         THEN [c EXCEPT !.operand1 = c.result, !.result = NoFloat,
                        !.operation = op]
         ELSE [c EXCEPT !.operation = op]

\* Calculator._handle_operation
handle_operation(c, op) ==
    IF c.current_number # ""
    THEN IF c.operand1 = NoFloat
         THEN [c EXCEPT !.operand1 = float(c.current_number),
                        !.current_number = "",
                        !.operation = op]
         ELSE LET e == calculate_result(c) IN
              IF e.error = None THEN [e EXCEPT !.operation = op] ELSE e
    ELSE IF c.result # NoFloat
         THEN [c EXCEPT !.operand1 = c.result, !.result = NoFloat,
                        !.operation = op]
         ELSE c

\* the digit branch appending to the pending number instead of dropping
accept_digit_appends(c, g) ==
    [calc |-> [c EXCEPT !.current_number = c.current_number \o g],
     ret |-> TRUE]

\* the digit branch starting a new calculation when a result is shown
accept_digit_starts_over(c, g) ==
    IF c.current_number = ""
    THEN [calc |-> [c EXCEPT !.current_number = g, !.result = NoFloat],
          ret |-> TRUE]
    ELSE [calc |-> c, ret |-> FALSE]

\* Calculator.process_gesture, the branch gesture.isdigit()
accept_digit(c, g) ==
    IF c.current_number = ""
    THEN [calc |-> [c EXCEPT !.current_number = g], ret |-> TRUE]
    ELSE [calc |-> c, ret |-> FALSE]

\* Calculator.process_gesture: the calculator after the call and the value
\* returned
process_gesture(c, g) ==
    IF g = None THEN [calc |-> c, ret |-> FALSE]
    ELSE LET c1 == [c EXCEPT !.error = None] IN
         IF g \in Digits THEN accept_digit(c1, g)
         ELSE IF g = "C" THEN [calc |-> clear(c1), ret |-> TRUE]
         ELSE IF g \in Operations
              THEN [calc |-> handle_operation(c1, g), ret |-> TRUE]
         ELSE IF g = "=" THEN [calc |-> calculate_result(c1), ret |-> TRUE]
         ELSE [calc |-> c1, ret |-> FALSE]

\* lst[i:] of a Python list, i of either sign
slice_from(lst, i) ==
    LET n == Len(lst)
        start == IF i < 0 THEN (IF n + i < 0 THEN 0 ELSE n + i)
                 ELSE (IF i > n THEN n ELSE i)
    IN  SubSeq(lst, start + 1, n)

\* list(reversed(lst))
reversed(lst) == [i \in 1..Len(lst) |-> lst[Len(lst) - i + 1]]

\* Calculator.get_history
get_history(c, max_items) == reversed(slice_from(c.history, -max_items))

\* Calculator.get_display_text
get_display_text(c) ==
    IF c.error # None THEN "Error: " \o c.error
    ELSE IF c.result # NoFloat
         THEN IF IsIntegral(c.result) THEN ToString(int(c.result))
              ELSE Fixed4Str(c.result)
    ELSE IF c.current_number # "" THEN c.current_number
    ELSE IF c.operand1 # NoFloat /\ c.operation # None
         THEN (IF IsIntegral(c.operand1) THEN ToString(int(c.operand1))
               ELSE FloatStr(c.operand1)) \o " " \o c.operation
    ELSE "0"

(***************************************************************************)
(* Landmark frames                                                         *)
(*                                                                         *)
(* A frame is [present, points]: present is FALSE for Python None, points  *)
(* is the list of (x, y, z) tuples, coordinates in hundredths.  Python's   *)
(* landmarks[i] is points[i + 1].                                          *)
(***************************************************************************)
NoHand == [present |-> FALSE, points |-> <<>>]

\* landmarks[i][0], landmarks[i][1], landmarks[i][2]
X(lm, i) == lm.points[i + 1][1]
Y(lm, i) == lm.points[i + 1][2]
Z(lm, i) == lm.points[i + 1][3]

\* A hand in a pose: thumb is "in" or "in_low" (not extended sideways, tip
\* above or below its MCP joint), "up" or "down" (extended sideways); index
\* is "up", "tilt", "half" (tip below the PIP joint but above the MCP
\* joint), "over" (tip above the PIP joint but below the MCP joint) or "down";
\* middle, ring and pinky are TRUE when extended; spread moves the middle
\* and pinky tips away from the index tip; tilted takes the palm out of the
\* image plane.
Hand(thumb, index, middle, ring, pinky, spread, tilted) ==
    [present |-> TRUE,
     points |-> <<
        <<50, 90, 0>>,                                          \* 0 wrist
        <<44, 80, 0>>,                                          \* 1
        <<40, 70, 0>>,                                          \* 2 thumb MCP
        <<36, 65, 0>>,                                          \* 3 thumb IP
        <<IF thumb \in {"in", "in_low"} THEN 35 ELSE 30,
          IF thumb \in {"down", "in_low"} THEN 85 ELSE 55, 0>>, \* 4 thumb tip
        <<45, IF index = "over" THEN 20 ELSE 60, 0>>,           \* 5 index MCP
        <<45, 50, 0>>,                                          \* 6 index PIP
        <<45, 40, 0>>,                                          \* 7
        <<IF index = "tilt" THEN 60 ELSE 45,
          CASE index = "up" -> 30 [] index = "tilt" -> 30
            [] index = "over" -> 30
            [] index = "half" -> 55 [] index = "down" -> 65, 0>>, \* 8 index tip
        <<50, 60, IF tilted THEN -15 ELSE 0>>,                  \* 9 middle MCP
        <<50, 50, 0>>,                                          \* 10 middle PIP
        <<50, 40, 0>>,                                          \* 11
        <<IF spread THEN 50 ELSE 47,
          IF middle THEN 28 ELSE 65, 0>>,                       \* 12 middle tip
        <<55, 62, 0>>,                                          \* 13
        <<55, 52, 0>>,                                          \* 14 ring PIP
        <<55, 42, 0>>,                                          \* 15
        <<55, IF ring THEN 32 ELSE 66, 0>>,                     \* 16 ring tip
        <<60, 65, 0>>,                                          \* 17
        <<60, 55, 0>>,                                          \* 18 pinky PIP
        <<60, 47, 0>>,                                          \* 19
        <<IF spread THEN 75 ELSE 60,
          IF pinky THEN 38 ELSE 68, 0>> >>]                     \* 20 pinky tip

\* a frame one point short
ShortFrame ==
    LET h == Hand("up", "up", TRUE, TRUE, TRUE, TRUE, FALSE)
    IN  [h EXCEPT !.points = SubSeq(h.points, 1, 20)]

(***************************************************************************)
(* Landmark classifier                                                     *)
(***************************************************************************)
\* GestureRecognizer._count_fingers_up
count_fingers_up(lm) ==
    (IF Abs(X(lm, 4) - X(lm, 3)) > Abs(X(lm, 3) - X(lm, 2)) THEN 1 ELSE 0)
    + (IF Y(lm, 8) < Y(lm, 6) THEN 1 ELSE 0)
    + (IF Y(lm, 12) < Y(lm, 10) THEN 1 ELSE 0)
    + (IF Y(lm, 16) < Y(lm, 14) THEN 1 ELSE 0)
    + (IF Y(lm, 20) < Y(lm, 18) THEN 1 ELSE 0)

\* GestureRecognizer._is_thumbs_up
is_thumbs_up(lm) ==
    IF count_fingers_up(lm) # 1 THEN FALSE
    ELSE Y(lm, 4) < Y(lm, 2) /\ Y(lm, 8) > Y(lm, 5)

\* GestureRecognizer._is_thumbs_down
is_thumbs_down(lm) ==
    IF count_fingers_up(lm) # 1 THEN FALSE
    ELSE Y(lm, 4) > Y(lm, 2) /\ Y(lm, 8) > Y(lm, 5)

\* GestureRecognizer._is_peace_sign; distance > 0.05 compared by squares
is_peace_sign(lm) ==
    LET index_up == Y(lm, 8) < Y(lm, 6)
        middle_up == Y(lm, 12) < Y(lm, 10)
        ring_down == Y(lm, 16) > Y(lm, 14)
        distance2 == (X(lm, 8) - X(lm, 12)) * (X(lm, 8) - X(lm, 12))
                     + (Y(lm, 8) - Y(lm, 12)) * (Y(lm, 8) - Y(lm, 12))
    IN  index_up /\ middle_up /\ ring_down /\ distance2 > 5 * 5

\* GestureRecognizer._is_pointing_up; h < v * 0.5 compared as 2h < v
is_pointing_up(lm) ==
    LET index_up == Y(lm, 8) < Y(lm, 6)
        middle_down == Y(lm, 12) > Y(lm, 10)
        horizontal_diff == Abs(X(lm, 8) - X(lm, 6))
        vertical_diff == Abs(Y(lm, 8) - Y(lm, 6))
    IN  index_up /\ middle_down /\ 2 * horizontal_diff < vertical_diff

\* GestureRecognizer._is_flat_palm
is_flat_palm(lm) ==
    IF count_fingers_up(lm) # 5 THEN FALSE
    ELSE LET distance == Abs(X(lm, 8) - X(lm, 20))
             z_diff == Abs(Z(lm, 0) - Z(lm, 9))
         IN  distance < 25 /\ z_diff < 10

\* the count-based branch with the closed fist read as clear
count_gesture_fist_clears(lm) ==
    LET fingers_up == count_fingers_up(lm) IN
    CASE fingers_up = 0 -> "C"
      [] fingers_up = 1 -> IF is_pointing_up(lm) THEN "/" ELSE "1"
      [] fingers_up = 2 -> IF is_peace_sign(lm) THEN "*" ELSE "2"
      [] fingers_up = 3 -> "3"
      [] fingers_up = 4 -> "4"
      [] fingers_up = 5 -> IF is_flat_palm(lm) THEN "=" ELSE "5"
      [] OTHER -> None

\* GestureRecognizer.recognize_gesture, the count-based branch
count_gesture(lm) ==
    LET fingers_up == count_fingers_up(lm) IN
    CASE fingers_up = 0 -> "0"
      [] fingers_up = 1 -> IF is_pointing_up(lm) THEN "/" ELSE "1"
      [] fingers_up = 2 -> IF is_peace_sign(lm) THEN "*" ELSE "2"
      [] fingers_up = 3 -> "3"
      [] fingers_up = 4 -> "4"
      [] fingers_up = 5 -> IF is_flat_palm(lm) THEN "=" ELSE "5"
      [] OTHER -> None

\* the thumbs check overriding only a count of one that was not pointing up
detected_gesture_count_first(lm) ==
    IF count_gesture(lm) # "1" THEN count_gesture(lm)
    ELSE IF is_thumbs_up(lm) THEN "+"
    ELSE IF is_thumbs_down(lm) THEN "-"
    ELSE "1"

\* GestureRecognizer.recognize_gesture: detected_gesture of a 21-point frame
detected_gesture(lm) ==
    IF is_thumbs_up(lm) THEN "+"
    ELSE IF is_thumbs_down(lm) THEN "-"
    ELSE count_gesture(lm)

(***************************************************************************)
(* Gesture hold and cooldown                                               *)
(***************************************************************************)
\* clock ticks per second
TicksPerSecond == 2
\* longest interval between two frames of a steady hold, in ticks
MaxDt == 3
\* ticks of clock explored after construction
Horizon == 15

\* GestureRecognizer(hold_time=3.0) in main
hold_time == 3 * TicksPerSecond
\* self.cooldown_time = 1.0
cooldown_time == 1 * TicksPerSecond

\* the clock at construction: time.time() is far from the epoch, so that
\* the initial last_confirmed_time = 0 opens no cooldown window
StartTime == cooldown_time
MaxTime == StartTime + Horizon

\* the recognizer's fields as one record
Rec == [current_gesture |-> current_gesture,
        gesture_start_time |-> gesture_start_time,
        last_confirmed_gesture |-> last_confirmed_gesture,
        last_confirmed_time |-> last_confirmed_time]

\* hold progress 0.0
Zero == <<0, 1>>
\* hold progress 1.0
One == <<1, 1>>

\* the return value (None, 0.0, False)
Nothing == <<None, Zero, FALSE>>

\* a cooldown window one tick short
in_cooldown_short(r, t) == t - r.last_confirmed_time < cooldown_time - 1

\* current_time - self.last_confirmed_time < self.cooldown_time
in_cooldown(r, t) == t - r.last_confirmed_time < cooldown_time

\* a confirmation that keeps tracking the confirmed gesture
confirm_keeps_tracking(r, g, t) ==
    [r EXCEPT !.last_confirmed_gesture = g, !.last_confirmed_time = t]

\* a confirmation that starts the next hold of the gesture at once
confirm_restarts_hold(r, g, t) ==
    [r EXCEPT !.last_confirmed_gesture = g, !.last_confirmed_time = t,
              !.current_gesture = g, !.gesture_start_time = t]

\* the "Gesture confirmed!" assignments
confirm(r, g, t) ==
    [r EXCEPT !.last_confirmed_gesture = g, !.last_confirmed_time = t,
              !.current_gesture = None, !.gesture_start_time = NoTime]

\* a hold test that wants more than hold_time
held_long_enough_strict(hold_duration) == hold_duration > hold_time

\* hold_duration >= self.hold_time
held_long_enough(hold_duration) == hold_duration >= hold_time

\* progress measured against the cooldown instead of the hold time
progress_of_cooldown(hold_duration) ==
    IF hold_duration < cooldown_time
    THEN Norm(hold_duration, cooldown_time) ELSE One

\* min(hold_duration / self.hold_time, 1.0)
progress(hold_duration) ==
    IF hold_duration < hold_time
    THEN Norm(hold_duration, hold_time) ELSE One

\* a reset that leaves the start time of the hold behind
reset_tracking_keeps_start(r) == [r EXCEPT !.current_gesture = None]

\* the reset of the tracked gesture
reset_tracking(r) ==
    [r EXCEPT !.current_gesture = None, !.gesture_start_time = NoTime]

\* GestureRecognizer.recognize_gesture called at time t: the recognizer
\* after the call and the value returned
recognize_gesture(r, lm, t) ==
    IF ~lm.present \/ Len(lm.points) # 21
    THEN [rec |-> reset_tracking(r), ret |-> Nothing]
    ELSE IF in_cooldown(r, t) THEN [rec |-> r, ret |-> Nothing]
    ELSE LET g == detected_gesture(lm) IN
         IF g # None
         THEN IF r.current_gesture = g
              THEN LET hold_duration == t - r.gesture_start_time
                       hold_progress == progress(hold_duration)
                   IN  IF held_long_enough(hold_duration)
                       THEN [rec |-> confirm(r, g, t), ret |-> <<g, One, TRUE>>]
                       ELSE [rec |-> r, ret |-> <<g, hold_progress, FALSE>>]
              ELSE [rec |-> [r EXCEPT !.current_gesture = g,
                                      !.gesture_start_time = t],
                    ret |-> <<g, Zero, FALSE>>]
         ELSE [rec |-> reset_tracking(r), ret |-> Nothing]

(***************************************************************************)
(* Calculator driven symbol by symbol                                      *)
(***************************************************************************)
\* the arguments process_gesture is called with: digits, the other
\* documented symbols, a character that is none of them, and None
InputDigits == {"0", "2", "3", "4"}
Inputs == InputDigits \cup Operations \cup {"=", "C", "x", None}

\* marks a trace that left the pattern
Off == <<"off">>

\* the trace after one more processed symbol
trace_next(tr, g) ==
    LET n == Len(tr) IN
    IF tr = Off THEN Off
    ELSE IF n > 0 /\ tr[n] = "=" THEN Off
    ELSE IF n \in {0, 2, 4} /\ g \in Digits THEN Append(tr, g)
    ELSE IF n \in {1, 3} /\ g \in Operations THEN Append(tr, g)
    ELSE IF n \in {3, 5} /\ g = "=" THEN Append(tr, g)
    ELSE Off

\* whether processing g in c runs _calculate_result
evaluates(c, g) ==
    \/ g = "="
    \/ g \in Operations /\ c.current_number # "" /\ c.operand1 # NoFloat

\* the calculator's part of one confirmed symbol: the whole of
\* process_gesture(g)
Process(g) ==
    LET out == process_gesture(Calc, g)
        c1 == [Calc EXCEPT !.error = None]
    IN  /\ current_number' = out.calc.current_number
        /\ operation' = out.calc.operation
        /\ operand1' = out.calc.operand1
        /\ result' = out.calc.result
        /\ history' = out.calc.history
        /\ error' = out.calc.error
        /\ gesture' = g
        /\ ret' = out.ret
        /\ ev_outcome' = IF evaluates(c1, g) THEN eval_outcome(c1) ELSE "none"
        /\ ev_after' = IF evaluates(c1, g) THEN calculate_result(c1) ELSE NewCalc
        /\ trace' = trace_next(trace, g)
        /\ steps' = steps + 1

ProcessGesture(g) ==
    /\ steps < MaxSteps
    /\ Process(g)
    /\ UNCHANGED <<rec_vars, rec_ghost, hist_vars, class_vars>>

Init ==
    /\ current_number = ""
    /\ operation = None
    /\ operand1 = NoFloat
    /\ result = NoFloat
    /\ history = <<>>
    /\ error = None
    /\ gesture = None
    /\ ret = FALSE
    /\ ev_outcome = "none"
    /\ ev_after = NewCalc
    /\ trace = <<>>
    /\ steps = 0
    /\ current_gesture = None
    /\ gesture_start_time = NoTime
    /\ last_confirmed_gesture = None
    /\ last_confirmed_time = 0
    /\ now = StartTime
    /\ rec_ret = Nothing
    /\ run_symbol = None
    /\ run_start = NoTime
    /\ run_in_cooldown = FALSE
    /\ run_confirms = 0
    /\ hist_arg = NotCalled
    /\ hist_ret = <<>>
    /\ landmarks = NoHand
    /\ detected = None

Next == \E g \in Inputs : ProcessGesture(g)

Spec == Init /\ [][Next]_vars

(***************************************************************************)
(* Recognizer called frame by frame, and the frame loop of main            *)
(***************************************************************************)
\* thumbs up, fist, open hand with spread fingers, flat palm, index pointing
\* up: the frames shown to the hold state machine
HoldFrames == {Hand("up", "down", FALSE, FALSE, FALSE, FALSE, FALSE),
               Hand("in", "down", FALSE, FALSE, FALSE, FALSE, FALSE),
               Hand("up", "up", TRUE, TRUE, TRUE, TRUE, FALSE),
               Hand("up", "up", TRUE, TRUE, TRUE, FALSE, FALSE),
               Hand("in", "up", FALSE, FALSE, FALSE, FALSE, FALSE)}

\* the symbol a frame classifies to, None for an absent or malformed frame
frame_symbol(lm) ==
    IF lm.present /\ Len(lm.points) = 21 THEN detected_gesture(lm) ELSE None

\* the run of same-symbol frames after a frame at time t classified to sym,
\* during which the recognizer (left in r before the frame) did or did not
\* confirm
RunStep(r, sym, t, confirmed) ==
    IF sym = None
    THEN /\ run_symbol' = None
         /\ run_start' = NoTime
         /\ run_in_cooldown' = FALSE
         /\ run_confirms' = 0
    ELSE IF sym = run_symbol
    THEN /\ run_confirms' = run_confirms + (IF confirmed THEN 1 ELSE 0)
         /\ UNCHANGED <<run_symbol, run_start, run_in_cooldown>>
    ELSE /\ run_symbol' = sym
         /\ run_start' = t
         /\ run_in_cooldown' = in_cooldown(r, t)
         /\ run_confirms' = (IF confirmed THEN 1 ELSE 0)

\* the recognizer's fields after a call
SetRec(r) ==
    /\ current_gesture' = r.current_gesture
    /\ gesture_start_time' = r.gesture_start_time
    /\ last_confirmed_gesture' = r.last_confirmed_gesture
    /\ last_confirmed_time' = r.last_confirmed_time

\* one call recognize_gesture(lm) when the clock reads t
Recognize(lm, t) ==
    LET out == recognize_gesture(Rec, lm, t) IN
    /\ now' = t
    /\ SetRec(out.rec)
    /\ rec_ret' = out.ret
    /\ RunStep(Rec, frame_symbol(lm), t, out.ret[3])
    /\ landmarks' = lm
    /\ UNCHANGED <<calc_vars, calc_ghost, hist_vars, detected>>

NextRecognizer ==
    \E lm \in HoldFrames \cup {NoHand, ShortFrame}, t \in now..MaxTime :
        Recognize(lm, t)

SpecRecognizer == Init /\ [][NextRecognizer]_vars

\* one iteration of the while loop of main, from the landmarks of the
\* frame, read when the clock is at t, to the calculator; rec_ret holds
\* current_gesture, hold_progress and whether the frame confirmed
MainLoop(lm, t) ==
    /\ now' = t
    /\ IF lm.present /\ Len(lm.points) > 0
       THEN LET out == recognize_gesture(Rec, lm, t) IN
            /\ SetRec(out.rec)
            /\ rec_ret' = out.ret
            /\ RunStep(Rec, frame_symbol(lm), t, out.ret[3])
            /\ IF out.ret[3]
               THEN Process(out.ret[1])
               ELSE UNCHANGED <<calc_vars, calc_ghost>>
       ELSE /\ rec_ret' = Nothing
            /\ RunStep(Rec, None, t, FALSE)
            /\ UNCHANGED <<rec_vars, calc_vars, calc_ghost>>
    /\ landmarks' = lm
    /\ UNCHANGED <<hist_vars, detected>>

\* HandTracker.get_hand_landmarks yields None or the 21 points of a hand
NextLoop ==
    \E lm \in HoldFrames \cup {NoHand}, t \in now..MaxTime : MainLoop(lm, t)

SpecLoop == Init /\ [][NextLoop]_vars

(***************************************************************************)
(* Calculator claims                                                       *)
(***************************************************************************)
\* the digits and operators of a trace, as numbers
TraceDigit(i) == DigitValue(trace[i])

\* r is the float a op b of two whole numbers a, b (b # 0 for '/')
IsResultOf(r, a, op, b) ==
    /\ r # NoFloat
    /\ r[2] > 0
    /\ CASE op = "+" -> r = <<a + b, 1>>
         [] op = "-" -> r = <<a - b, 1>>
         [] op = "*" -> r = <<a * b, 1>>
         [] op = "/" -> r[1] * b = a * r[2]

\* r is the float x op b of a float x and a whole number b (b # 0 for
\* '/'), as numbers: -0.0 is 0
IsChainedResultOf(r, x, op, b) ==
    /\ r # NoFloat
    /\ LET rn == r[1]
           rd == Abs(r[2])
           xn == x[1]
           xd == Abs(x[2])
       IN  CASE op = "+" -> rn * xd = (xn + b * xd) * rd
             [] op = "-" -> rn * xd = (xn - b * xd) * rd
             [] op = "*" -> rn * xd = (xn * b) * rd
             [] op = "/" -> rn * xd * b = xn * rd

\* the trace is a, op1, b, op2, c, '=' without a division by zero
ChainedTrace ==
    /\ Len(trace) = 6
    /\ trace[6] = "="
    /\ ~(trace[2] = "/" /\ trace[3] = "0")
    /\ ~(trace[4] = "/" /\ trace[5] = "0")

\* C1: a, op1, b, op2, c, '=' from the initial state (no division by zero)
\* leaves result = (a op1 b) op2 c and exactly two history entries; and
\* 3 + 4 + 2 = gives result 9 with display "9".
C1_ChainedResult ==
    /\ ChainedTrace =>
          /\ \E x \in {Norm(n, d) : n \in -9..81, d \in 1..9} :
                /\ IsResultOf(x, TraceDigit(1), trace[2], TraceDigit(3))
                /\ IsChainedResultOf(result, x, trace[4], TraceDigit(5))
          /\ Len(history) = 2
    /\ trace = <<"3", "+", "4", "+", "2", "=">> =>
          result = <<9, 1>> /\ get_display_text(Calc) = "9"

\* C2: after an evaluation by '=' that divides by zero, get_display_text
\* returns "Error: Division by zero" (and, the display being a function of
\* the state, keeps returning it until the next symbol is processed).
C2_DivZeroShowsError ==
    (gesture = "=" /\ ev_outcome = "divzero") =>
        get_display_text(Calc) = "Error: Division by zero"

\* C6: processing 'C' in any reachable state leaves the display "0", with
\* buffer, operator, operand1, result and error empty, and leaves history
\* as it was.
C6_ClearResets ==
    [][(steps' # steps /\ gesture' = "C") =>
          /\ get_display_text(Calc)' = "0"
          /\ current_number' = ""
          /\ operation' = None
          /\ operand1' = NoFloat
          /\ result' = NoFloat
          /\ error' = None
          /\ history' = history]_vars

\* 'C' was processed when a result was on display and the log non-empty
C6_Witness ==
    /\ gesture = "C"
    /\ Len(history) = 1
    /\ steps >= 5
    /\ get_display_text(Calc) = "0"

\* C7: the pending number is empty or one digit in every reachable state,
\* and a digit processed while it is non-empty changes no field and
\* returns False.
C7_SingleDigit ==
    /\ [](current_number \in Digits \cup {""})
    /\ [][(steps' # steps /\ gesture' \in Digits /\ current_number # "") =>
             (Calc' = Calc /\ ret' = FALSE)]_vars

\* a second digit was dropped
C7_Witness ==
    /\ gesture = "4"
    /\ ret = FALSE
    /\ current_number = "3"

\* the trace is a, op, b, '=' without a division by zero
SimpleTrace ==
    /\ Len(trace) = 4
    /\ trace[4] = "="
    /\ ~(trace[2] = "/" /\ trace[3] = "0")

\* C8: a, op, b, '=' from the initial state (no division by zero) sets
\* result = a op b, appends exactly one history entry made of operand1,
\* operator, operand2 and result, and clears buffer, operand1 and operator
\* while result stays; 3 + 4 = displays "7" with the one history entry
\* "3.0 + 4.0 = 7.0".
C8_SimpleEvaluation ==
    /\ SimpleTrace =>
          /\ IsResultOf(result, TraceDigit(1), trace[2], TraceDigit(3))
          /\ history = <<expression(<<TraceDigit(1), 1>>, trace[2],
                                    <<TraceDigit(3), 1>>, result)>>
          /\ current_number = ""
          /\ operand1 = NoFloat
          /\ operation = None
    /\ trace = <<"3", "+", "4", "=">> =>
          /\ get_display_text(Calc) = "7"
          /\ history = <<"3.0 + 4.0 = 7.0">>

\* 3 + 4 = was processed
C8_Witness ==
    /\ trace = <<"3", "+", "4", "=">>
    /\ result = <<7, 1>>

\* C9: an evaluation that divides by zero returns with buffer, operator,
\* operand1 and result empty and history as it was before the symbol; when
\* the symbol was '=' that is the state the calculator is left in.
C9_DivZeroResets ==
    [][(steps' # steps /\ ev_outcome' = "divzero") =>
          /\ ev_after'.current_number = ""
          /\ ev_after'.operation = None
          /\ ev_after'.operand1 = NoFloat
          /\ ev_after'.result = NoFloat
          /\ ev_after'.history = history
          /\ history' = history
          /\ gesture' = "=" => Calc' = ev_after']_vars

\* a division by zero was evaluated with a result on display and an entry
\* in the log
C9_Witness ==
    /\ ev_outcome = "divzero"
    /\ gesture = "="
    /\ Len(history) = 1
    /\ result = NoFloat

(***************************************************************************)
(* One gesture held steadily in front of the frame loop                    *)
(***************************************************************************)
\* the clock up to which the steady hold is followed: a first frame within
\* MaxDt of the start, hold_time, and one more interval
HoldMaxTime == StartTime + hold_time + 2 * MaxDt

\* an iteration of the loop of main whose frame shows the gesture of the
\* frames before it, at most MaxDt after the previous one
HoldFrame(lm, t) ==
    /\ run_symbol = None \/ frame_symbol(lm) = run_symbol
    /\ t <= now + MaxDt
    /\ MainLoop(lm, t)

NextHold == \E lm \in HoldFrames, t \in now..HoldMaxTime : HoldFrame(lm, t)

\* frame timestamps grow without bound: a frame with a later timestamp
\* keeps arriving
ClockAdvances ==
    \E lm \in HoldFrames, t \in (now + 1)..HoldMaxTime : HoldFrame(lm, t)

SpecHold == Init /\ [][NextHold]_vars /\ WF_vars(ClockAdvances)

(***************************************************************************)
(* The classifier applied to frames                                        *)
(***************************************************************************)
\* the hands of every pose
Frames ==
    {Hand(thumb, index, middle, ring, pinky, spread, tilted) :
        thumb \in {"in", "in_low", "up", "down"},
        index \in {"up", "tilt", "half", "over", "down"},
        middle \in BOOLEAN, ring \in BOOLEAN, pinky \in BOOLEAN,
        spread \in BOOLEAN, tilted \in BOOLEAN}

\* the classification of one 21-point frame (recognize_gesture, lines 52-88)
Classify(lm) ==
    /\ landmarks' = lm
    /\ detected' = detected_gesture(lm)
    /\ UNCHANGED <<calc_vars, calc_ghost, rec_vars, rec_ghost, hist_vars>>

NextClassifier == \E lm \in Frames : Classify(lm)

SpecClassifier == Init /\ [][NextClassifier]_vars

(***************************************************************************)
(* A session of the frame loop followed through several confirmations      *)
(***************************************************************************)
\* seconds of the session that are followed
SessionSeconds == 16
SessionMaxTime == StartTime + SessionSeconds * TicksPerSecond

\* an iteration of the loop of main on a frame read when the clock is at t
SessionFrame(lm, t) ==
    /\ t <= SessionMaxTime
    /\ MainLoop(lm, t)

\* frames arrive cooldown_time or hold_time after the previous one
NextSession ==
    \E lm \in HoldFrames \cup {NoHand}, dt \in {cooldown_time, hold_time} :
        SessionFrame(lm, now + dt)

SpecSession == Init /\ [][NextSession]_vars

(***************************************************************************)
(* Calculator claims: return value, operators, history                     *)
(***************************************************************************)
\* C11: process_gesture returns True exactly when the call changed the
\* calculator, and False when the symbol was a no-op.
C11_ReturnsChanged ==
    [][steps' # steps => (ret' = (Calc' # Calc))]_vars

\* C13: when the implicit evaluation triggered by an operator divides by
\* zero, the operator is not installed and the calculator is left fully
\* reset.
C13_NoOperatorAfterDivZero ==
    (gesture \in Operations /\ ev_outcome = "divzero") =>
        /\ operation = None
        /\ current_number = ""
        /\ operand1 = NoFloat
        /\ result = NoFloat

\* C14: in every reachable state operand1 is set only if operation is set.
C14_OperandNeedsOperator == operand1 # NoFloat => operation # None

\* operand1 taken over from the result of an evaluation
C14_Witness ==
    /\ operand1 # NoFloat
    /\ operation # None
    /\ gesture \in Operations
    /\ Len(history) = 1
    /\ current_number = ""

\* C15: every processed symbol leaves the old history as a prefix of the
\* new one and appends at most one entry, and only by a successful
\* evaluation.
C15_AppendOnly ==
    [][/\ Len(history') \in {Len(history), Len(history) + 1}
       /\ SubSeq(history', 1, Len(history)) = history
       /\ Len(history') = Len(history) + 1 => ev_outcome' = "ok"]_vars

\* a second entry was appended behind the first
C15_Witness ==
    /\ Len(history) = 2
    /\ ev_outcome = "ok"

\* C16: in every reachable state with the buffer empty and result = r, an
\* operator op moves r into operand1, clears result and sets the operator;
\* a following digit d and '=' then leave result = r op d (where r op d is
\* defined, that is, not for '/' and '0').
C16_ContinueFromResult ==
    (current_number = "" /\ result # NoFloat) =>
        \A op \in Operations, d \in InputDigits :
            LET c1 == process_gesture(Calc, op).calc
                c2 == process_gesture(c1, d).calc
                c3 == process_gesture(c2, "=").calc
            IN  /\ c1.operand1 = result
                /\ c1.result = NoFloat
                /\ c1.operation = op
                /\ ~(op = "/" /\ d = "0") =>
                      IsChainedResultOf(c3.result, result, op, DigitValue(d))

\* two evaluations in seven symbols: d op d = op d =
C16_Witness ==
    /\ steps = 7
    /\ gesture = "="
    /\ ev_outcome = "ok"
    /\ Len(history) = 2

\* C17: '=' without operand1, operator or pending digit, and an operator
\* with the buffer empty and no result, leave buffer, operator, operand1,
\* result and history as they were.
C17_NoOpsChangeNothing ==
    [][(steps' # steps /\
        \/ gesture' = "=" /\ (operand1 = NoFloat \/ operation = None
                              \/ current_number = "")
        \/ gesture' \in Operations /\ current_number = "" /\ result = NoFloat)
       => /\ current_number' = current_number
          /\ operation' = operation
          /\ operand1' = operand1
          /\ result' = result
          /\ history' = history]_vars

\* an operator was processed on an operator already waiting for its digit
C17_Witness ==
    /\ gesture = "-"
    /\ operation = "+"
    /\ operand1 # NoFloat
    /\ current_number = ""
    /\ result = NoFloat

\* C23: a call of process_gesture on a calculator holding a result
\* removes the result only when the symbol is 'C', when the call's
\* evaluation divides by zero, or when the symbol is an operator and the
\* digit buffer is empty; it replaces the result by another only through a
\* successful evaluation; a digit, and an operator that commits a pending
\* digit as operand1, leave the result and the display text as they were.
C23_ResultStays ==
    [][(steps' # steps /\ result # NoFloat) =>
          /\ result' = NoFloat =>
                \/ gesture' = "C"
                \/ ev_outcome' = "divzero"
                \/ gesture' \in Operations /\ current_number = ""
          /\ (result' # NoFloat /\ result' # result) => ev_outcome' = "ok"
          /\ (\/ gesture' \in Digits
              \/ gesture' \in Operations /\ current_number # ""
                                         /\ operand1 = NoFloat) =>
                /\ result' = result
                /\ get_display_text(Calc)' = get_display_text(Calc)]_vars

\* after d op d '=', a digit and an operator: the new operand1/operator
\* pair is set and the display still shows the result of the evaluation
C23_Witness ==
    /\ steps = 6
    /\ gesture \in Operations
    /\ Len(history) = 1
    /\ result # NoFloat
    /\ operand1 # NoFloat
    /\ operation = gesture
    /\ current_number = ""
    /\ get_display_text(Calc) = Fixed4Str(result)

(***************************************************************************)
(* Hold and cooldown claims                                                *)
(***************************************************************************)
\* C3: in the frame loop a symbol is confirmed (and passed to the
\* calculator) only if every frame since the start of an uninterrupted run
\* of at least hold_time classified to it; a frame without a hand, or with
\* another symbol, restarts the hold.
C3_SteadyHold ==
    rec_ret[3] =>
        /\ run_symbol = rec_ret[1]
        /\ now - run_start >= hold_time
        /\ gesture = rec_ret[1]

\* C4: once a symbol has been confirmed at time t, every call at a time
\* t' with t' - t < cooldown_time returns (None, 0.0, False), whatever
\* frame it is given.
C4_Cooldown ==
    [][(last_confirmed_gesture # None
        /\ now' - last_confirmed_time < cooldown_time) =>
            rec_ret' = Nothing]_vars

\* a different gesture was shown inside the cooldown window, after the
\* confirming call
C4_Witness ==
    /\ last_confirmed_gesture # None
    /\ now > last_confirmed_time
    /\ now - last_confirmed_time < cooldown_time
    /\ run_symbol \notin {None, last_confirmed_gesture}
    /\ rec_ret = Nothing

\* C5 as claimed: a run of same-symbol frames of any duration >= hold_time
\* is confirmed exactly once.
C5_ExactlyOnce ==
    (run_symbol # None /\ now - run_start >= hold_time) => run_confirms = 1

\* C5 as amended: a run of same-symbol frames is confirmed at most once
\* while it is shorter than 2 * hold_time + cooldown_time, and at least
\* once when it started outside the cooldown window and has lasted
\* hold_time.
C5_OncePerShortHold ==
    run_symbol # None =>
        /\ now - run_start < 2 * hold_time + cooldown_time => run_confirms <= 1
        /\ (~run_in_cooldown /\ now - run_start >= hold_time) => run_confirms >= 1

\* a gesture held on through its confirmation and the cooldown, and being
\* tracked again
C5_Witness ==
    /\ run_symbol # None
    /\ ~run_in_cooldown
    /\ last_confirmed_gesture = run_symbol
    /\ last_confirmed_time > run_start
    /\ now - last_confirmed_time >= cooldown_time
    /\ current_gesture = run_symbol
    /\ run_confirms = 1

\* C12: a call with None, or with a list that has not 21 points, returns
\* (None, 0.0, False), leaves current_gesture and gesture_start_time empty
\* and leaves last_confirmed_time as it was.
C12_MalformedFrame ==
    [][(~landmarks'.present \/ Len(landmarks'.points) # 21) =>
          /\ rec_ret' = Nothing
          /\ current_gesture' = None
          /\ gesture_start_time' = NoTime
          /\ last_confirmed_time' = last_confirmed_time]_vars

\* a 20-point frame arrived after a confirmation and its cooldown
C12_Witness ==
    /\ landmarks = ShortFrame
    /\ rec_ret = Nothing
    /\ current_gesture = None
    /\ last_confirmed_gesture # None
    /\ now - last_confirmed_time >= cooldown_time

\* C18: with one gesture in every frame and a clock that keeps advancing,
\* the frame loop confirms the gesture on the first frame whose elapsed
\* hold time is at least hold_time, returning (symbol, 1.0, True), and
\* hands the symbol to process_gesture.
C18_HoldConfirms ==
    /\ <>(rec_ret = <<run_symbol, One, TRUE>> /\ gesture = run_symbol)
    /\ [][(landmarks'.present
           /\ current_gesture = frame_symbol(landmarks')
           /\ now' - last_confirmed_time >= cooldown_time) =>
             /\ rec_ret'[3] = (now' - gesture_start_time >= hold_time)
             /\ rec_ret'[3] =>
                   /\ rec_ret' = <<current_gesture, One, TRUE>>
                   /\ gesture' = current_gesture
                   /\ steps' = steps + 1]_vars

\* the first confirmation, on a frame that came later than hold_time after
\* the first
C18_Witness ==
    /\ rec_ret = <<run_symbol, One, TRUE>>
    /\ gesture = run_symbol
    /\ steps = 1
    /\ now - run_start > hold_time

\* C19: the hold progress returned is within [0, 1]; it is below 1.0 on
\* every unconfirmed frame, 1.0 on every confirming frame, and 0.0 on the
\* frame that starts tracking a new symbol.
C19_Progress ==
    /\ [](/\ 0 <= rec_ret[2][1]
          /\ rec_ret[2][1] <= rec_ret[2][2]
          /\ rec_ret[3] => rec_ret[2] = One
          /\ ~rec_ret[3] => rec_ret[2][1] < rec_ret[2][2])
    /\ [][(current_gesture' # None /\ current_gesture' # current_gesture) =>
             rec_ret'[2] = Zero]_vars

\* a hold under way: progress strictly between 0 and 1
C19_Witness ==
    /\ ~rec_ret[3]
    /\ rec_ret[2][1] > 0
    /\ rec_ret[2][1] < rec_ret[2][2]
    /\ rec_ret[1] = current_gesture

\* C21: a confirmation that follows an earlier one comes no sooner than
\* cooldown_time + hold_time after it, and the hold it ends started after
\* the cooldown of the earlier one had elapsed.
C21_ConfirmationGap ==
    [][(rec_ret'[3] /\ last_confirmed_gesture # None) =>
          /\ last_confirmed_time' = now'
          /\ gesture_start_time - last_confirmed_time >= cooldown_time
          /\ now' - last_confirmed_time >= cooldown_time + hold_time]_vars

\* the second confirmation of one uninterrupted hold, as soon after the
\* first as the cooldown and the hold time allow
C21_Witness ==
    /\ rec_ret[3]
    /\ run_confirms = 2
    /\ ~run_in_cooldown
    /\ last_confirmed_time = now
    /\ now - run_start = 2 * hold_time + cooldown_time

\* the symbols some pose classifies to
Recognized == {detected_gesture(lm) : lm \in Frames}

\* the symbols C22 says recognize_gesture emits
Emitted == {"0", "1", "2", "3", "4", "5"} \cup Operations \cup {"="}

ExtendedTips(lm) ==
    {tip \in {8, 12, 16, 20} : Y(lm, tip) < Y(lm, tip - 2)}
    \cup (IF Abs(X(lm, 4) - X(lm, 3)) > Abs(X(lm, 3) - X(lm, 2))
          THEN {4} ELSE {})

\* one finger extended, thumb tip above its MCP joint, index tip below its
\* MCP joint
ThumbsUpPose(lm) ==
    /\ Cardinality(ExtendedTips(lm)) = 1
    /\ Y(lm, 4) < Y(lm, 2)
    /\ Y(lm, 8) > Y(lm, 5)

\* one finger extended, thumb tip below its MCP joint, index tip below its
\* MCP joint
ThumbsDownPose(lm) ==
    /\ Cardinality(ExtendedTips(lm)) = 1
    /\ Y(lm, 4) > Y(lm, 2)
    /\ Y(lm, 8) > Y(lm, 5)

\* C20: a 21-point frame in the thumbs-up pose classifies to '+', and
\* otherwise one in the thumbs-down pose to '-', whatever the count-based
\* branch chose; every frame classifies to exactly one symbol.
C20_ThumbsPrecedence ==
    landmarks.present =>
        /\ ThumbsUpPose(landmarks) => detected = "+"
        /\ (~ThumbsUpPose(landmarks) /\ ThumbsDownPose(landmarks)) =>
              detected = "-"
        /\ detected \in Digits \cup Operations \cup {"="}

\* the thumbs-up check overrode the '/' of a pointing index finger
C20_Witness ==
    /\ landmarks.present
    /\ count_gesture(landmarks) = "/"
    /\ detected = "+"

(***************************************************************************)
(* History retrieval on logs of every length                               *)
(***************************************************************************)
\* entries as the evaluations 3 + 4 = and 7 + 2 = append them
LogEntries == {expression(<<3, 1>>, "+", <<4, 1>>, <<7, 1>>),
               expression(<<7, 1>>, "+", <<2, 1>>, <<9, 1>>)}

\* the logs of at most MaxLog entries
Logs == UNION {[1..n -> LogEntries] : n \in 0..MaxLog}

\* a calculator that evaluated some expressions and was then cleared
InitHistory ==
    /\ current_number = ""
    /\ operation = None
    /\ operand1 = NoFloat
    /\ result = NoFloat
    /\ history \in Logs
    /\ error = None
    /\ gesture = "C"
    /\ ret = TRUE
    /\ ev_outcome = "none"
    /\ ev_after = NewCalc
    /\ trace = Off
    /\ steps = 0
    /\ current_gesture = None
    /\ gesture_start_time = NoTime
    /\ last_confirmed_gesture = None
    /\ last_confirmed_time = 0
    /\ now = StartTime
    /\ rec_ret = Nothing
    /\ run_symbol = None
    /\ run_start = NoTime
    /\ run_in_cooldown = FALSE
    /\ run_confirms = 0
    /\ hist_arg = NotCalled
    /\ hist_ret = <<>>
    /\ landmarks = NoHand
    /\ detected = None

\* one call of get_history(max_items)
GetHistory(max_items) ==
    /\ hist_arg' = max_items
    /\ hist_ret' = get_history(Calc, max_items)
    /\ UNCHANGED <<calc_vars, calc_ghost, rec_vars, rec_ghost, class_vars>>

NextHistory == \E max_items \in 0..MaxItems : GetHistory(max_items)

SpecHistory == InitHistory /\ [][NextHistory]_vars

\* C10: get_history(max_items), max_items >= 0, returns the
\* min(max_items, n) most recent entries of a log of n entries, most recent
\* first (and the log is as it was).
C10_MostRecentEntries ==
    hist_arg # NotCalled =>
        LET n == Len(history)
            k == IF hist_arg < n THEN hist_arg ELSE n
        IN  /\ Len(hist_ret) = k
            /\ \A i \in 1..k : hist_ret[i] = history[n - i + 1]

====
